---------------------------- MODULE Spec2Model ----------------------------
(***************************************************************************)
(* Model of src/app.js: the shipment normalisation and grouping pipeline   *)
(* (parseShippingMethod, buildOrderItems, resolveSourceId,                 *)
(* resolveShippingMethod, buildGroupedShipments) and the POST / handler    *)
(* that submits the grouped shipments one at a time.                       *)
(*                                                                         *)
(* JavaScript values are tagged records [t |-> kind, v |-> payload]; JS    *)
(* strings are TLA+ strings handled character by character.                *)
(***************************************************************************)
EXTENDS Integers, Sequences, FiniteSets, TLC

VARIABLES
    pc,           \* position of the request handler / of the function call
    data,         \* req.body of the request being handled
    attachments,  \* app.js:206  the normalised attachment array
    idx,          \* number of attachments the forEach of app.js:163 has visited
    grouped,      \* app.js:161  the Map, as its entries in insertion order
    shipments,    \* app.js:210  Array.from(grouped.values())
    k,            \* index of the shipment the for-of loop of app.js:216 is at
    responses,    \* app.js:215
    fetchLog,     \* the fetch calls of app.js:227 issued so far, with their outcome
    res,          \* the HTTP response sent (status + JSON body), or NoResponse
    arg,          \* argument of the pure function under check
    argTokens,    \* the whitespace-free words arg was assembled from
    ret           \* value returned by the pure function under check

vars == <<pc, data, attachments, idx, grouped, shipments, k, responses,
          fetchLog, res, arg, argTokens, ret>>

requestVars == <<data, attachments, idx, grouped, shipments, k, responses,
                 fetchLog, res>>

callVars == <<arg, argTokens, ret>>

---------------------------------------------------------------------------
(* Bounds of the checked instances *)

MaxTokens == 3        \* words in a raw shipping-method string
MaxItems == 2         \* elements of an order_items array
MaxAttachments == 3   \* elements of a mail_attachments array

---------------------------------------------------------------------------
(* JavaScript values *)

Undefined == [t |-> "undefined", v |-> 0]
Null == [t |-> "null", v |-> 0]
NaN == [t |-> "nan", v |-> 0]
Infinity == [t |-> "inf", v |-> 0]
Str(s) == [t |-> "str", v |-> s]
Num(n) == [t |-> "num", v |-> n]
Bool(b) == [t |-> "bool", v |-> b]
Obj(fields) == [t |-> "obj", v |-> fields]
Arr(elems) == [t |-> "arr", v |-> elems]
\* a function or object inherited from Object.prototype
Builtin(name) == [t |-> "builtin", v |-> name]

\* ToBoolean
Truthy(x) ==
    CASE x.t = "undefined" -> FALSE
      [] x.t = "null" -> FALSE
      [] x.t = "nan" -> FALSE
      [] x.t = "str" -> x.v # ""
      [] x.t = "num" -> x.v # 0
      [] x.t = "bool" -> x.v
      [] OTHER -> TRUE

\* a || b
Or(a, b) == IF Truthy(a) THEN a ELSE b

\* typeof x === 'object'
TypeofObject(x) == x.t \in {"obj", "arr", "null"}

\* obj.name for a plain object; undefined when the property is absent
Get(obj, name) ==
    IF obj.t = "obj" /\ name \in DOMAIN obj.v THEN obj.v[name] ELSE Undefined

---------------------------------------------------------------------------
(* Strings *)

WhiteSpace == {" ", "\t"}

Digits == <<"0", "1", "2", "3", "4", "5", "6", "7", "8", "9">>

LowerLetters == <<"a", "b", "c", "d", "e", "f", "g", "h", "i", "j", "k", "l", "m",
                  "n", "o", "p", "q", "r", "s", "t", "u", "v", "w", "x", "y", "z">>

UpperLetters == <<"A", "B", "C", "D", "E", "F", "G", "H", "I", "J", "K", "L", "M",
                  "N", "O", "P", "Q", "R", "S", "T", "U", "V", "W", "X", "Y", "Z">>

RECURSIVE TrimStart(_)
TrimStart(s) ==
    IF s = "" THEN ""
    ELSE IF Head(s) \in WhiteSpace THEN TrimStart(Tail(s)) ELSE s

RECURSIVE TrimEnd(_)
TrimEnd(s) ==
    IF s = "" THEN ""
    ELSE IF SubSeq(s, Len(s), Len(s)) \in WhiteSpace
         THEN TrimEnd(SubSeq(s, 1, Len(s) - 1))
         ELSE s

\* String.prototype.trim
Trim(s) == TrimEnd(TrimStart(s))

\* s.split(/\s+/): the pieces between maximal runs of white space
RECURSIVE SplitRec(_, _, _, _)
SplitRec(s, piece, out, inSeparator) ==
    IF s = "" THEN Append(out, piece)
    ELSE IF Head(s) \in WhiteSpace
         THEN SplitRec(Tail(s), "",
                       IF inSeparator THEN out ELSE Append(out, piece), TRUE)
         ELSE SplitRec(Tail(s), piece \o Head(s), out, FALSE)

SplitWhiteSpace(s) == SplitRec(s, "", <<>>, FALSE)

\* parts.join(sep)
RECURSIVE Join(_, _)
Join(parts, sep) ==
    IF parts = <<>> THEN ""
    ELSE IF Len(parts) = 1 THEN parts[1]
    ELSE parts[1] \o sep \o Join(Tail(parts), sep)

UpperChar(c) ==
    IF \E i \in 1..26 : LowerLetters[i] = c
    THEN UpperLetters[CHOOSE i \in 1..26 : LowerLetters[i] = c]
    ELSE c

\* String.prototype.toUpperCase
RECURSIVE ToUpperCase(_)
ToUpperCase(s) ==
    IF s = "" THEN "" ELSE UpperChar(Head(s)) \o ToUpperCase(Tail(s))

DigitValue(c) == (CHOOSE i \in 1..10 : Digits[i] = c) - 1

IsDigit(c) == \E i \in 1..10 : Digits[i] = c

RECURSIVE AllDigits(_)
AllDigits(s) == s = "" \/ (IsDigit(Head(s)) /\ AllDigits(Tail(s)))

RECURSIVE DigitsValue(_, _)
DigitsValue(s, acc) ==
    IF s = "" THEN acc ELSE DigitsValue(Tail(s), 10 * acc + DigitValue(Head(s)))

\* Number(s) for a string: decimal integer literals, "Infinity", "" and the rest
StringToNumber(s) ==
    LET body == Trim(s)
        signed == body # "" /\ Head(body) \in {"-", "+"}
        sign == IF body # "" /\ Head(body) = "-" THEN -1 ELSE 1
        magnitude == IF signed THEN Tail(body) ELSE body
    IN  IF body = "" THEN Num(0)
        ELSE IF magnitude = "Infinity" THEN Infinity
        ELSE IF magnitude # "" /\ AllDigits(magnitude)
             THEN Num(sign * DigitsValue(magnitude, 0))
        ELSE NaN

\* Number(x) for a scalar, undefined or a plain object (ids and quantities are
\* not arrays in the inputs checked)
ToNumber(x) ==
    CASE x.t = "num" -> x
      [] x.t = "nan" -> x
      [] x.t = "inf" -> x
      [] x.t = "str" -> StringToNumber(x.v)
      [] x.t = "bool" -> Num(IF x.v THEN 1 ELSE 0)
      [] x.t = "null" -> Num(0)
      [] OTHER -> NaN

\* Number.isFinite(x) for the result of Number(...)
IsFinite(x) == x.t = "num"

RECURSIVE NatToString(_)
NatToString(n) ==
    IF n < 10 THEN Digits[n + 1]
    ELSE NatToString(n \div 10) \o Digits[(n % 10) + 1]

\* String(x) for the truthy values a JSON body can put in a method field
JSString(x) ==
    CASE x.t = "str" -> x.v
      [] x.t = "num" -> IF x.v < 0 THEN "-" \o NatToString(-x.v) ELSE NatToString(x.v)
      [] x.t = "bool" -> IF x.v THEN "true" ELSE "false"
      [] OTHER -> "[object Object]"

---------------------------------------------------------------------------
(* app.js:57-90  shipping-method normalisation *)

shipmentMethodMapping ==
    ("GRND" :> "Ground") @@ ("RES" :> "Residential") @@ ("3DAY" :> "3-Day Select")
    @@ ("2DAY" :> "2-Day Air") @@ ("1DAY" :> "Next Day Air")
    @@ ("STD" :> "Standard") @@ ("EXP" :> "Express")

\* property names every object literal inherits from Object.prototype
ObjectPrototypeKeys ==
    {"constructor", "toString", "valueOf", "hasOwnProperty", "isPrototypeOf",
     "propertyIsEnumerable", "toLocaleString", "__proto__"}

\* shipmentMethodMapping[key]: own key, else inherited property, else undefined
MappingLookup(key) ==
    IF key \in DOMAIN shipmentMethodMapping THEN Str(shipmentMethodMapping[key])
    ELSE IF key \in ObjectPrototypeKeys THEN Builtin(key)
    ELSE Undefined

\* app.js:81-84
NormalizeMethod(rawMethod) ==
    LET normalizedCode == ToUpperCase(rawMethod)
    IN  Or(Or(MappingLookup(rawMethod), MappingLookup(normalizedCode)), Str(rawMethod))

NoMethod == [carrier_code |-> Null, shipment_method |-> Null]

\* parseShippingMethod with the trim of app.js:73 left out of the split
parseShippingMethodUntrimmed(methodSource) ==
    IF ~Truthy(methodSource) THEN NoMethod
    ELSE IF Trim(JSString(methodSource)) = "" THEN NoMethod
    ELSE LET split == SplitWhiteSpace(JSString(methodSource))
             carrier_code == IF Len(split) > 1 THEN Str(Head(split)) ELSE Null
             parts == IF Len(split) > 1 THEN Tail(split) ELSE split
             rawMethod == Join(parts, " ")
             shipment_method == NormalizeMethod(rawMethod)
         IN  [carrier_code |-> Or(carrier_code, Null),
              shipment_method |-> Or(shipment_method, Null)]

parseShippingMethod(methodSource) ==
    IF ~Truthy(methodSource) THEN NoMethod
    ELSE LET trimmed == Trim(JSString(methodSource))
         IN  IF trimmed = "" THEN NoMethod
             ELSE LET split == SplitWhiteSpace(trimmed)
                      carrier_code == IF Len(split) > 1 THEN Str(Head(split)) ELSE Null
                      parts == IF Len(split) > 1 THEN Tail(split) ELSE split
                      rawMethod == Join(parts, " ")
                      shipment_method == NormalizeMethod(rawMethod)
                  IN  [carrier_code |-> Or(carrier_code, Null),
                       shipment_method |-> Or(shipment_method, Null)]

---------------------------------------------------------------------------
(* app.js:93-136  line items *)

\* obj[names[1]] || obj[names[2]] || ... || last
RECURSIVE OrChain(_, _, _)
OrChain(obj, names, last) ==
    IF names = <<>> THEN last
    ELSE Or(Get(obj, Head(names)), OrChain(obj, Tail(names), last))

ItemIdAliases ==
    <<"order_items_brightstores_line_item_id", "order_items_id", "id",
      "brightstores_line_item_id">>

ItemQuantityAliases == <<"quantity", "qty", "shipment_quantity">>

FlatIdAliases ==
    <<"order_items_brightstores_line_item_id", "order_items_id",
      "brightstores_line_item_id", "order_item_id", "line_item_id">>

FlatQuantityAliases == <<"shipment_quantity", "quantity">>

\* the discard test with the checks on id left out
RejectedOnQuantityOnly(id, quantity) ==
    \/ ~IsFinite(quantity)
    \/ quantity.v <= 0

\* app.js:113 and app.js:131: the test that discards an id/quantity pair
Rejected(id, quantity) ==
    \/ ~IsFinite(id)
    \/ id.v <= 0
    \/ ~IsFinite(quantity)
    \/ quantity.v <= 0

\* app.js:100-118: the map callback; Null for a discarded element
ItemFromElement(item) ==
    IF ~Truthy(item) \/ ~TypeofObject(item) THEN Null
    ELSE LET id == ToNumber(OrChain(item, ItemIdAliases, Num(0)))
             quantity == ToNumber(OrChain(item, ItemQuantityAliases, Num(0)))
         IN  IF Rejected(id, quantity) THEN Null
             ELSE Obj([id |-> id, quantity |-> quantity])

\* app.js:122-135: the attachment read as one flat item
ItemsFromFlat(attachment) ==
    LET id == ToNumber(OrChain(attachment, FlatIdAliases, Num(0)))
        quantity == ToNumber(OrChain(attachment, FlatQuantityAliases, Num(0)))
    IN  IF Rejected(id, quantity) THEN <<>>
        ELSE <<Obj([id |-> id, quantity |-> quantity])>>

buildOrderItems(attachment) ==
    IF ~Truthy(attachment) \/ ~TypeofObject(attachment) THEN <<>>
    ELSE IF Get(attachment, "order_items").t = "arr"
         THEN LET order_items == Get(attachment, "order_items").v
                  mapped == [i \in 1..Len(order_items) |->
                                ItemFromElement(order_items[i])]
              IN  SelectSeq(mapped, Truthy)
         ELSE ItemsFromFlat(attachment)

---------------------------------------------------------------------------
(* app.js:138-195  field resolution and grouping *)

SourceIdAliases == <<"brightstores_order_id", "jcharles_order_number", "customer_po">>

ShippingMethodAliases == <<"brightstores_shipping_method", "ship_via_description">>

resolveSourceId(attachment) ==
    IF ~Truthy(attachment) \/ ~TypeofObject(attachment) THEN Null
    ELSE OrChain(attachment, SourceIdAliases, Null)

resolveShippingMethod(attachment) ==
    IF ~Truthy(attachment) \/ ~TypeofObject(attachment) THEN NoMethod
    ELSE parseShippingMethod(OrChain(attachment, ShippingMethodAliases, Null))

\* Map.prototype.get: the value stored under key, or undefined
MapGet(map, key) ==
    IF \E i \in 1..Len(map) : map[i].key = key
    THEN map[CHOOSE i \in 1..Len(map) : map[i].key = key].value
    ELSE Undefined

MapHas(map, key) == \E i \in 1..Len(map) : map[i].key = key

\* a set that stores every value as a new entry
MapSetAppending(map, key, value) == Append(map, [key |-> key, value |-> value])

\* Map.prototype.set: an existing key keeps its place, a new key goes last
MapSet(map, key, value) ==
    IF MapHas(map, key)
    THEN [i \in 1..Len(map) |->
             IF map[i].key = key THEN [key |-> key, value |-> value] ELSE map[i]]
    ELSE Append(map, [key |-> key, value |-> value])

\* Array.from(map.values())
MapValues(map) == [i \in 1..Len(map) |-> map[i].value]

\* app.js:173-178: the record a new tracking number starts from
NewEntry(tracking_number, attachment) ==
    [tracking_number |-> tracking_number,
     source_id |-> resolveSourceId(attachment),
     carrier_code |-> resolveShippingMethod(attachment).carrier_code,
     shipment_method |-> resolveShippingMethod(attachment).shipment_method,
     order_items |-> <<>>]

\* app.js:180-182
BackfillSourceId(entry, attachment) ==
    IF ~Truthy(entry.source_id)
    THEN [entry EXCEPT !.source_id = resolveSourceId(attachment)]
    ELSE entry

\* a backfill in which the later attachment's fields win
BackfillMethodLastWins(entry, attachment) ==
    LET method == resolveShippingMethod(attachment)
    IN  [entry EXCEPT !.carrier_code = Or(method.carrier_code, entry.carrier_code),
                      !.shipment_method =
                          Or(method.shipment_method, entry.shipment_method)]

\* a backfill that fills carrier and method only as a pair, when both are null
BackfillMethodAsPair(entry, attachment) ==
    IF ~Truthy(entry.carrier_code) /\ ~Truthy(entry.shipment_method)
    THEN LET method == resolveShippingMethod(attachment)
         IN  [entry EXCEPT !.carrier_code = method.carrier_code,
                           !.shipment_method = method.shipment_method]
    ELSE entry

\* app.js:184-188
BackfillMethod(entry, attachment) ==
    IF ~Truthy(entry.carrier_code) \/ ~Truthy(entry.shipment_method)
    THEN LET method == resolveShippingMethod(attachment)
         IN  [entry EXCEPT !.carrier_code = Or(entry.carrier_code, method.carrier_code),
                           !.shipment_method =
                               Or(entry.shipment_method, method.shipment_method)]
    ELSE entry

\* items that replace the record's list instead of extending it
ReplaceItems(entry, attachment) ==
    [entry EXCEPT !.order_items = buildOrderItems(attachment)]

\* app.js:190
AppendItems(entry, attachment) ==
    [entry EXCEPT !.order_items = entry.order_items \o buildOrderItems(attachment)]

\* app.js:163-192: one call of the forEach callback
GroupAttachment(map, attachment) ==
    IF ~Truthy(attachment) \/ ~TypeofObject(attachment) THEN map
    ELSE LET tracking_number == Or(Get(attachment, "tracking_number"), Null)
         IN  IF ~Truthy(tracking_number) THEN map
             ELSE LET entry == IF MapHas(map, tracking_number)
                               THEN MapGet(map, tracking_number)
                               ELSE NewEntry(tracking_number, attachment)
                  IN  MapSet(map, tracking_number,
                             AppendItems(
                                 BackfillMethod(
                                     BackfillSourceId(entry, attachment), attachment),
                                 attachment))

\* the Map after the forEach has visited the first n attachments
RECURSIVE GroupFirst(_, _)
GroupFirst(list, n) ==
    IF n = 0 THEN <<>> ELSE GroupAttachment(GroupFirst(list, n - 1), list[n])

\* app.js:160-195
buildGroupedShipments(list) == MapValues(GroupFirst(list, Len(list)))

---------------------------------------------------------------------------
(* app.js:198-291  the POST / handler and the error middleware *)

\* app.js:26-33
createError(message, statusCode, details) ==
    [message |-> message, statusCode |-> statusCode, details |-> details]

\* an error thrown by the runtime: it carries no statusCode and no details
RuntimeError(message) ==
    [message |-> message, statusCode |-> Undefined, details |-> Undefined]

\* app.js:275-291: what the error middleware sends for an error
ErrorResponse(error) ==
    [status |-> Or(error.statusCode, Num(500)).v,
     body |-> [success |-> FALSE,
               message |-> Or(Str(error.message), Str("An unexpected error occurred")).v,
               details |-> Or(error.details, Null)]]

\* app.js:265
SuccessResponse(list) ==
    [status |-> 200, body |-> [success |-> TRUE, responses |-> list]]

---------------------------------------------------------------------------
(* Idle values of the variables a specification does not use *)

NoResponse == [status |-> 0, body |-> Undefined]
NoValue == Undefined

RequestIdle ==
    /\ data = Undefined
    /\ attachments = <<>>
    /\ idx = 0
    /\ grouped = <<>>
    /\ shipments = <<>>
    /\ k = 0
    /\ responses = <<>>
    /\ fetchLog = <<>>
    /\ res = NoResponse

---------------------------------------------------------------------------
(* Specification SpecParse: parseShippingMethod applied to one input *)

Words == {"GRND", "grnd", "Grnd", "2day", "FEDEX", "Overnight", "toString"}

Leading == {"", " "}
Separators == {" ", " \t "}
Trailing == {"", "\t "}

WordLists == UNION {[1..n -> Words] : n \in 0..MaxTokens}

\* the raw string: lead, the words joined by sep, trail
Assemble(lead, words, sep, trail) == lead \o Join(words, sep) \o trail

InitParse ==
    /\ pc = "call"
    /\ RequestIdle
    /\ ret = NoValue
    /\ \/ /\ arg \in {Undefined, Null, Num(0), Str("")}
          /\ argTokens = <<>>
       \/ /\ arg = Num(7)
          /\ argTokens = <<"7">>
       \/ \E words \in WordLists, lead \in Leading, sep \in Separators,
             trail \in Trailing :
             /\ arg = Str(Assemble(lead, words, sep, trail))
             /\ argTokens = words

Parse ==
    /\ pc = "call"
    /\ ret' = parseShippingMethod(arg)
    /\ pc' = "return"
    /\ UNCHANGED <<requestVars, arg, argTokens>>

NextParse == Parse

SpecParse == InitParse /\ [][NextParse]_vars

---------------------------------------------------------------------------
(* Claims about parseShippingMethod, checked under SpecParse *)

\* the label the table is consulted with: the words after the carrier, or the
\* only word
MethodLabel(words) ==
    IF Len(words) > 1 THEN Join(Tail(words), " ") ELSE Join(words, " ")

EqualIgnoringCase(a, b) == ToUpperCase(a) = ToUpperCase(b)

\* what the normalisation table promises for a label
TableLabel(label) ==
    IF \E key \in DOMAIN shipmentMethodMapping : EqualIgnoringCase(label, key)
    THEN Str(shipmentMethodMapping[
             CHOOSE key \in DOMAIN shipmentMethodMapping : EqualIgnoringCase(label, key)])
    ELSE Str(label)

\* C9: every method label that matches a key of the normalisation table in any
\* letter case resolves to the mapped label, and every other label is returned
\* unchanged as shipment_method.
C9_MethodResolvedByTable ==
    (pc = "return" /\ argTokens # <<>>) =>
        ret.shipment_method = TableLabel(MethodLabel(argTokens))

\* C9, restricted: the same, for labels that are not the name of a property
\* inherited from Object.prototype.
C9_MethodResolvedByTableUnlessInherited ==
    (pc = "return" /\ argTokens # <<>>
        /\ MethodLabel(argTokens) \notin ObjectPrototypeKeys) =>
        ret.shipment_method = TableLabel(MethodLabel(argTokens))

C9_InheritedLabelParsed ==
    /\ pc = "return"
    /\ arg = Str("FEDEX toString")
    /\ ret.shipment_method = Builtin("toString")

\* C10: carrier_code is non-null exactly when the trimmed input has at least two
\* whitespace-separated tokens; it is then the first token, and the remaining
\* tokens joined by single spaces are what the method lookup is given; with no
\* token at all (null, empty, whitespace-only) both fields are null.
C10_CarrierIffTwoTokens ==
    pc = "return" =>
        /\ (ret.carrier_code # Null) <=> (Len(argTokens) >= 2)
        /\ Len(argTokens) >= 2 =>
              /\ ret.carrier_code = Str(argTokens[1])
              /\ ret.shipment_method = NormalizeMethod(Join(Tail(argTokens), " "))
        /\ Len(argTokens) = 1 => ret.shipment_method = NormalizeMethod(argTokens[1])
        /\ Len(argTokens) = 0 => ret = NoMethod

C10_Witness ==
    /\ pc = "return"
    /\ arg = Str(" FEDEX \t grnd \t Overnight\t ")
    /\ argTokens = <<"FEDEX", "grnd", "Overnight">>
    /\ ret = [carrier_code |-> Str("FEDEX"), shipment_method |-> Str("grnd Overnight")]

---------------------------------------------------------------------------
(* Specification SpecItems: buildOrderItems applied to one attachment *)

FieldValues == {Undefined, Num(0), Num(3), Num(-2), Str("7"), Str("SKU-1")}

Elements ==
    {Obj([id |-> i, quantity |-> q]) : i \in FieldValues, q \in FieldValues}
    \cup {Obj([order_items_id |-> Num(5), qty |-> Num(2)]),
          Obj([id |-> Num(0), brightstores_line_item_id |-> Num(8),
               quantity |-> Num(0), shipment_quantity |-> Str(" 4 ")]),
          Obj([id |-> Str("Infinity"), quantity |-> Num(1)]),
          Obj([id |-> Bool(TRUE), quantity |-> Str("2")]),
          Arr(<<Num(1), Num(2)>>),
          Null, Str("junk"), Num(5)}

ElementLists == UNION {[1..n -> Elements] : n \in 0..MaxItems}

FlatAttachments ==
    {Obj([tracking_number |-> Str("T1"), line_item_id |-> i, quantity |-> q]) :
        i \in FieldValues, q \in FieldValues}
    \cup {Obj([tracking_number |-> Str("T1"), order_item_id |-> Num(21),
               shipment_quantity |-> Num(0), quantity |-> Num(3)]),
          Obj([order_items |-> Str("none"), order_items_id |-> Str("12"),
               shipment_quantity |-> Num(2)]),
          Obj([order_items |-> Null, brightstores_line_item_id |-> Str("x9"),
               quantity |-> Num(2)]),
          Null, Undefined, Str("text"), Arr(<<>>)}

InitItems ==
    /\ pc = "call"
    /\ RequestIdle
    /\ ret = NoValue
    /\ argTokens = <<>>
    /\ \/ arg \in FlatAttachments
       \/ \E elems \in ElementLists :
             arg = Obj([tracking_number |-> Str("T1"), order_items |-> Arr(elems)])

Build ==
    /\ pc = "call"
    /\ ret' = buildOrderItems(arg)
    /\ pc' = "return"
    /\ UNCHANGED <<requestVars, arg, argTokens>>

NextItems == Build

SpecItems == InitItems /\ [][NextItems]_vars

---------------------------------------------------------------------------
(* Claims about buildOrderItems, checked under SpecItems *)

\* the candidate items of an attachment: the elements of its order_items list,
\* or the attachment itself when it is an object without such a list
HasItemList(attachment) == Get(attachment, "order_items").t = "arr"

Candidates(attachment) ==
    IF HasItemList(attachment) THEN Get(attachment, "order_items").v
    ELSE IF attachment.t \in {"obj", "arr"} THEN <<attachment>>
    ELSE <<>>

IdOf(attachment, e) ==
    OrChain(e, IF HasItemList(attachment) THEN ItemIdAliases ELSE FlatIdAliases,
            Undefined)

QuantityOf(attachment, e) ==
    OrChain(e, IF HasItemList(attachment) THEN ItemQuantityAliases
               ELSE FlatQuantityAliases, Undefined)

\* x converts to a finite number strictly greater than zero
PositiveNumber(x) == ToNumber(x).t = "num" /\ ToNumber(x).v > 0

\* the item is an object whose identifier is a truthy string or number and whose
\* quantity is a finite number greater than zero
ValidAsStated(attachment, e) ==
    /\ e.t \in {"obj", "arr"}
    /\ Truthy(IdOf(attachment, e))
    /\ IdOf(attachment, e).t \in {"str", "num"}
    /\ PositiveNumber(QuantityOf(attachment, e))

\* the item is an object whose identifier and quantity both convert to a finite
\* number greater than zero
ValidNumerically(attachment, e) ==
    /\ e.t \in {"obj", "arr"}
    /\ PositiveNumber(IdOf(attachment, e))
    /\ PositiveNumber(QuantityOf(attachment, e))

Valid(rule, attachment, e) ==
    IF rule = "as stated" THEN ValidAsStated(attachment, e)
    ELSE ValidNumerically(attachment, e)

\* indices of the candidates that are valid by rule, in increasing order
RECURSIVE KeptIndices(_, _, _)
KeptIndices(attachment, rule, n) ==
    IF n = 0 THEN <<>>
    ELSE LET before == KeptIndices(attachment, rule, n - 1)
         IN  IF Valid(rule, attachment, Candidates(attachment)[n])
             THEN Append(before, n) ELSE before

\* C8, as stated: buildOrderItems keeps exactly the items whose identifier is
\* present and truthy (a string or a number) and whose quantity is a finite
\* number greater than zero, in their original order, and drops the rest.
C8_KeepsTruthyIdentifier ==
    pc = "return" =>
        LET kept == KeptIndices(arg, "as stated", Len(Candidates(arg)))
        IN  /\ Len(ret) = Len(kept)
            /\ \A j \in 1..Len(kept) :
                  Get(ret[j], "quantity") =
                      ToNumber(QuantityOf(arg, Candidates(arg)[kept[j]]))

\* C8, amended: buildOrderItems keeps exactly the items whose identifier and
\* quantity (each the first truthy alias) both convert to a finite number
\* greater than zero, as {id, quantity} pairs of those numbers, in their
\* original order, and drops every other item; without an order_items list the
\* attachment itself is the only candidate.
C8_KeepsPositiveNumericItems ==
    pc = "return" =>
        LET kept == KeptIndices(arg, "numeric", Len(Candidates(arg)))
        IN  /\ Len(ret) = Len(kept)
            /\ \A j \in 1..Len(kept) :
                  ret[j] = Obj([id |-> ToNumber(IdOf(arg, Candidates(arg)[kept[j]])),
                                quantity |->
                                    ToNumber(QuantityOf(arg, Candidates(arg)[kept[j]]))])

C8_Witness ==
    /\ pc = "return"
    /\ arg = Obj([tracking_number |-> Str("T1"),
                  order_items |-> Arr(<<Obj([id |-> Str("SKU-1"), quantity |-> Num(3)]),
                                        Obj([id |-> Str("7"), quantity |-> Num(3)])>>)])
    /\ ret = <<Obj([id |-> Num(7), quantity |-> Num(3)])>>

---------------------------------------------------------------------------
(* Specification Spec: one request through the POST / handler *)

\* attachments a request body is assembled from
NotAnObject == Null

NoTracking ==
    Obj([tracking_number |-> Null, brightstores_order_id |-> Str("SO-1"),
         line_item_id |-> Num(11), quantity |-> Num(2)])

EmptyTracking ==
    Obj([tracking_number |-> Str(""), ship_via_description |-> Str("UPS GRND")])

MethodOnly == Obj([tracking_number |-> Str("T1"), ship_via_description |-> Str("RES")])

\* carries its label in a field named shipment_method, which app.js never reads
MethodInOutputField ==
    Obj([tracking_number |-> Str("T1"), shipment_method |-> Str("RES")])

CarrierAndMethod ==
    Obj([tracking_number |-> Str("T1"),
         brightstores_shipping_method |-> Str("FEDEX STD"),
         brightstores_order_id |-> Str("SO-1"),
         order_items |-> Arr(<<Obj([id |-> Num(5), quantity |-> Num(1)]),
                               Null,
                               Obj([id |-> Str("SKU-1"), qty |-> Num(2)]),
                               Obj([order_items_id |-> Str("7"), qty |-> Str("2")])>>)])

ZeroQuantity ==
    Obj([tracking_number |-> Str("T9"), order_item_id |-> Num(21), quantity |-> Num(0),
         customer_po |-> Str("PO-7"), ship_via_description |-> Str("USPS EXP")])

ThreeQuantity ==
    Obj([tracking_number |-> Str("T9"), order_item_id |-> Num(22), quantity |-> Num(3),
         jcharles_order_number |-> Str("JC-2"),
         brightstores_shipping_method |-> Str("UPS 2day")])

ThirdTracking ==
    Obj([tracking_number |-> Str("T3"), ship_via_description |-> Str(" ups  grnd "),
         line_item_id |-> Str("30"), shipment_quantity |-> Num(1)])

AttachmentPool ==
    {NotAnObject, NoTracking, EmptyTracking, MethodOnly, MethodInOutputField,
     CarrierAndMethod, ZeroQuantity, ThreeQuantity, ThirdTracking}

AttachmentLists == UNION {[1..n -> AttachmentPool] : n \in 0..MaxAttachments}

\* what the fulfilment service answers
ResponseData == Obj([shipped |-> Bool(TRUE)])
RejectionStatus == "422 Unprocessable Entity"
RejectionBody == Obj([error |-> Str("unknown order")])

Init ==
    /\ pc = "start"
    /\ \/ data \in {Undefined, Obj([note |-> Str("no attachments field")]),
                    Obj([mail_attachments |-> Str("T1")])}
       \/ \E a \in AttachmentPool : data = Obj([mail_attachments |-> a])
       \/ \E list \in AttachmentLists : data = Obj([mail_attachments |-> Arr(list)])
    /\ attachments = <<>>
    /\ idx = 0
    /\ grouped = <<>>
    /\ shipments = <<>>
    /\ k = 0
    /\ responses = <<>>
    /\ fetchLog = <<>>
    /\ res = NoResponse
    /\ arg = NoValue
    /\ argTokens = <<>>
    /\ ret = NoValue

\* app.js:267-271 and 275-291: the catch block hands the error to the middleware
Throw(error) ==
    /\ res' = ErrorResponse(error)
    /\ pc' = "done"

\* app.js:201-208, and app.js:161 on entering buildGroupedShipments
Validate ==
    /\ pc = "start"
    /\ IF ~Truthy(data) \/ ~TypeofObject(Get(data, "mail_attachments"))
       THEN /\ Throw(createError(
                   "Invalid input: 'mail_attachments' must be an object or array.",
                   Num(400), Undefined))
            /\ UNCHANGED <<attachments, grouped>>
       ELSE /\ attachments' = IF Get(data, "mail_attachments").t = "arr"
                              THEN Get(data, "mail_attachments").v
                              ELSE <<Get(data, "mail_attachments")>>
            /\ grouped' = <<>>
            /\ pc' = "grouping"
            /\ UNCHANGED res
    /\ UNCHANGED <<data, idx, shipments, k, responses, fetchLog, callVars>>

\* app.js:163-192: the forEach callback on the next attachment
GroupStep ==
    /\ pc = "grouping"
    /\ idx < Len(attachments)
    /\ grouped' = GroupAttachment(grouped, attachments[idx + 1])
    /\ idx' = idx + 1
    /\ UNCHANGED <<pc, data, attachments, shipments, k, responses, fetchLog, res,
                   callVars>>

\* a gate that rejects as soon as one attachment produced no record of its own
NoShipmentsStrict(list) == Len(list) < Len(attachments)

\* app.js:211: !shipments.length
NoShipments(list) == Len(list) = 0

\* app.js:194 and 210-215
EndGrouping ==
    /\ pc = "grouping"
    /\ idx = Len(attachments)
    /\ shipments' = MapValues(grouped)
    /\ IF NoShipments(MapValues(grouped))
       THEN /\ Throw(createError("Invalid attachment: Missing 'tracking_number'.",
                                 Num(400), Undefined))
            /\ UNCHANGED <<k, responses>>
       ELSE /\ responses' = <<>>
            /\ k' = 1
            /\ pc' = "loop"
            /\ UNCHANGED res
    /\ UNCHANGED <<data, attachments, idx, grouped, fetchLog, callVars>>

\* a loop body that starts the fetch and moves on without awaiting it
SubmitWithoutAwait ==
    /\ pc = "loop"
    /\ k <= Len(shipments)
    /\ fetchLog' = Append(fetchLog,
                          [index |-> k,
                           tracking_number |-> shipments[k].tracking_number,
                           outcome |-> "pending"])
    /\ k' = k + 1
    /\ UNCHANGED <<pc, data, attachments, idx, grouped, shipments, responses, res,
                   callVars>>

\* app.js:216-233: the loop body up to the await of fetch
Submit ==
    /\ pc = "loop"
    /\ k <= Len(shipments)
    /\ fetchLog' = Append(fetchLog,
                          [index |-> k,
                           tracking_number |-> shipments[k].tracking_number,
                           outcome |-> "pending"])
    /\ pc' = "awaiting"
    /\ UNCHANGED <<data, attachments, idx, grouped, shipments, k, responses, res,
                   callVars>>

Settle(outcome) == [fetchLog EXCEPT ![Len(fetchLog)].outcome = outcome]

\* app.js:254-258: a 2xx response whose body parses
FetchOk ==
    /\ pc = "awaiting"
    /\ fetchLog' = Settle("ok")
    /\ responses' = Append(responses,
                           [tracking_number |-> shipments[k].tracking_number,
                            response |-> ResponseData])
    /\ k' = k + 1
    /\ pc' = "loop"
    /\ UNCHANGED <<data, attachments, idx, grouped, shipments, res, callVars>>

\* a rejection that is skipped: the loop goes on to the next shipment
FetchRejectedSkipped ==
    /\ pc = "awaiting"
    /\ fetchLog' = [fetchLog EXCEPT ![Len(fetchLog)].outcome = "rejected"]
    /\ k' = k + 1
    /\ pc' = "loop"
    /\ UNCHANGED <<data, attachments, idx, grouped, shipments, responses, res, callVars>>

\* app.js:235-252: a response that is not 2xx
FetchRejected ==
    /\ pc = "awaiting"
    /\ fetchLog' = Settle("rejected")
    /\ Throw(createError("Failed to submit shipment", Num(400),
                         Obj([status |-> Str(RejectionStatus),
                              requestBody |-> shipments[k],
                              serverResponse |-> RejectionBody])))
    /\ UNCHANGED <<data, attachments, idx, grouped, shipments, k, responses, callVars>>

\* app.js:227 and 236: fetch, or the read of an error body, rejects (the
\* transport failed)
FetchFailed ==
    /\ pc = "awaiting"
    /\ fetchLog' = Settle("failed")
    /\ Throw(RuntimeError("fetch failed"))
    /\ UNCHANGED <<data, attachments, idx, grouped, shipments, k, responses, callVars>>

\* app.js:254: a 2xx response whose body is not JSON
FetchUnparsable ==
    /\ pc = "awaiting"
    /\ fetchLog' = Settle("unparsable")
    /\ Throw(RuntimeError("Unexpected token in JSON"))
    /\ UNCHANGED <<data, attachments, idx, grouped, shipments, k, responses, callVars>>

\* app.js:261-265: the loop is over
Respond ==
    /\ pc = "loop"
    /\ k > Len(shipments)
    /\ res' = SuccessResponse(responses)
    /\ pc' = "done"
    /\ UNCHANGED <<data, attachments, idx, grouped, shipments, k, responses, fetchLog,
                   callVars>>

Next ==
    \/ Validate
    \/ GroupStep
    \/ EndGrouping
    \/ Submit
    \/ FetchOk
    \/ FetchRejected
    \/ FetchFailed
    \/ FetchUnparsable
    \/ Respond

Spec == Init /\ [][Next]_vars

\* the fold, taken one attachment at a time, computes buildGroupedShipments
FoldIsBuildGroupedShipments ==
    /\ grouped = GroupFirst(attachments, idx)
    /\ pc \in {"loop", "awaiting", "done"} =>
          shipments = buildGroupedShipments(attachments)

---------------------------------------------------------------------------
(* Claims about grouping and submission, checked under Spec *)

Grouped == pc \in {"loop", "awaiting", "done"}

NotNullish(x) == x.t \notin {"null", "undefined"}

Counts(rule, tn) == IF rule = "non-null" THEN NotNullish(tn) ELSE Truthy(tn)

\* the tracking numbers counting by rule that the first n attachments carry,
\* each once, in the order of first appearance
RECURSIVE FirstSeen(_, _, _)
FirstSeen(list, rule, n) ==
    IF n = 0 THEN <<>>
    ELSE LET before == FirstSeen(list, rule, n - 1)
             tn == Get(list[n], "tracking_number")
         IN  IF /\ list[n].t = "obj"
                /\ Counts(rule, tn)
                /\ \A i \in 1..Len(before) : before[i] # tn
             THEN Append(before, tn)
             ELSE before

TrackingNumbers(records) == [i \in 1..Len(records) |-> records[i].tracking_number]

\* C1, as stated: the grouped list holds exactly one record per distinct
\* non-null tracking_number of an object attachment, in first-seen order.
C1_OneRecordPerNonNullTracking ==
    Grouped =>
        TrackingNumbers(shipments) = FirstSeen(attachments, "non-null", Len(attachments))

\* C1, amended: the grouped list holds exactly one record per distinct truthy
\* (non-null and non-empty) tracking_number of an object attachment, in
\* first-seen order, and nothing else; the same holds of the map after every
\* attachment of the fold.
C1_OneRecordPerTracking ==
    /\ TrackingNumbers(MapValues(grouped)) = FirstSeen(attachments, "truthy", idx)
    /\ \A i \in 1..Len(grouped) : grouped[i].key = grouped[i].value.tracking_number
    /\ Grouped =>
          TrackingNumbers(shipments) = FirstSeen(attachments, "truthy", Len(attachments))

C1_Witness ==
    /\ Grouped
    /\ attachments = <<ZeroQuantity, CarrierAndMethod, ThreeQuantity>>
    /\ TrackingNumbers(shipments) = <<Str("T9"), Str("T1")>>

MergedFields == {"source_id", "carrier_code", "shipment_method"}

\* C2: during the fold, a source_id, carrier_code or shipment_method that holds
\* a non-null value is never changed by a later attachment: the record stays in
\* its place and the field keeps its value.
C2_PopulatedFieldsKept ==
    [][\A i \in 1..Len(grouped) : \A f \in MergedFields :
          grouped[i].value[f] # Null =>
              /\ Len(grouped') >= i
              /\ grouped'[i].key = grouped[i].key
              /\ grouped'[i].value[f] = grouped[i].value[f]]_vars

C2_Witness ==
    /\ pc = "grouping"
    /\ idx = 2
    /\ attachments = <<ZeroQuantity, ThreeQuantity>>
    /\ grouped[1].value.source_id = Str("PO-7")
    /\ grouped[1].value.carrier_code = Str("USPS")
    /\ grouped[1].value.shipment_method = Str("Express")
    /\ resolveSourceId(ThreeQuantity) = Str("JC-2")
    /\ resolveShippingMethod(ThreeQuantity) =
           [carrier_code |-> Str("UPS"), shipment_method |-> Str("2-Day Air")]

\* C3, as stated: A {tracking_number: "T1", shipment_method: "RES"} followed by
\* B {tracking_number: "T1", brightstores_shipping_method: "FEDEX STD"} merge into
\* one record with carrier_code "FEDEX" and shipment_method "Residential".
C3_MergeOfStatedFields ==
    (Grouped /\ attachments = <<MethodInOutputField, CarrierAndMethod>>) =>
        /\ Len(shipments) = 1
        /\ shipments[1].carrier_code = Str("FEDEX")
        /\ shipments[1].shipment_method = Str("Residential")

\* C3, amended: A {tracking_number: "T1", ship_via_description: "RES"} followed by
\* B {tracking_number: "T1", brightstores_shipping_method: "FEDEX STD"} merge into
\* one record with carrier_code "FEDEX" (from B) and shipment_method
\* "Residential" (from A, not B's "Standard").
C3_MergeBackfillsCarrierOnly ==
    (Grouped /\ attachments = <<MethodOnly, CarrierAndMethod>>) =>
        /\ Len(shipments) = 1
        /\ shipments[1].tracking_number = Str("T1")
        /\ shipments[1].carrier_code = Str("FEDEX")
        /\ shipments[1].shipment_method = Str("Residential")

C3_Witness ==
    /\ Grouped
    /\ attachments = <<MethodOnly, CarrierAndMethod>>
    /\ shipments[1].carrier_code = Str("FEDEX")
    /\ resolveShippingMethod(CarrierAndMethod).shipment_method = Str("Standard")

\* the line items of the first n attachments that carry tracking number tn
RECURSIVE ItemsFor(_, _, _)
ItemsFor(list, tn, n) ==
    IF n = 0 THEN <<>>
    ELSE ItemsFor(list, tn, n - 1) \o
         (IF Get(list[n], "tracking_number") = tn THEN buildOrderItems(list[n])
          ELSE <<>>)

BodyAttachments ==
    IF Get(data, "mail_attachments").t = "arr" THEN Get(data, "mail_attachments").v
    ELSE <<Get(data, "mail_attachments")>>

CarriesTracking ==
    \E i \in 1..Len(BodyAttachments) :
        Truthy(Get(BodyAttachments[i], "tracking_number"))

LastOutcome == fetchLog[Len(fetchLog)].outcome

\* C5: a request in which no attachment carries a tracking number is answered
\* with status 400 and never issues a submission; a request in which some
\* attachment carries one is never rejected by validation, whatever else is
\* malformed: its first shipment is submitted, and only a failed submission
\* makes it fail.
C5_RejectedIffNoTracking ==
    /\ ~CarriesTracking =>
          /\ fetchLog = <<>>
          /\ pc \notin {"loop", "awaiting"}
          /\ pc = "done" => (res.status = 400 /\ ~res.body.success)
    /\ (CarriesTracking /\ pc = "done") =>
          /\ fetchLog # <<>>
          /\ ~res.body.success => LastOutcome \in {"rejected", "failed", "unparsable"}

C5_Witness ==
    /\ pc = "done"
    /\ data = Obj([mail_attachments |-> NoTracking])
    /\ res.status = 400
    /\ res.body.message = "Invalid attachment: Missing 'tracking_number'."
    /\ fetchLog = <<>>

\* C6: when the submission of some shipment is answered with a non-2xx status,
\* the request ends with status 400 and success false, and the response holds
\* the failing shipment only, none of the earlier results; a success response
\* is sent only after every shipment was submitted successfully, and holds one
\* {tracking_number, response} entry per shipment in first-seen order.
C6_FailFastNoPartialSuccess ==
    pc = "done" =>
        /\ (fetchLog # <<>> /\ LastOutcome = "rejected") =>
              /\ res.status = 400
              /\ ~res.body.success
              /\ DOMAIN res.body = {"success", "message", "details"}
              /\ res.body.details =
                     Obj([status |-> Str(RejectionStatus),
                          requestBody |-> shipments[Len(fetchLog)],
                          serverResponse |-> RejectionBody])
        /\ res.body.success =>
              /\ res.status = 200
              /\ Len(shipments) > 0
              /\ Len(fetchLog) = Len(shipments)
              /\ \A i \in 1..Len(fetchLog) : fetchLog[i].outcome = "ok"
              /\ res.body.responses =
                     [i \in 1..Len(shipments) |->
                         [tracking_number |-> shipments[i].tracking_number,
                          response |-> ResponseData]]
              /\ TrackingNumbers(res.body.responses) =
                     FirstSeen(attachments, "truthy", Len(attachments))

C6_Witness ==
    /\ pc = "done"
    /\ Len(shipments) = 3
    /\ Len(fetchLog) = 2
    /\ fetchLog[1].outcome = "ok"
    /\ fetchLog[2].outcome = "rejected"
    /\ Len(responses) = 1
    /\ res.status = 400

\* C7: the submissions of a request are issued one at a time in first-seen
\* order: the log of issued submissions is a prefix of the grouped list, every
\* submission but the last has completed with a parsed 2xx answer, at most one
\* is in flight, and nothing is issued after one has failed.
C7_SequentialPrefix ==
    /\ Len(fetchLog) <= Len(shipments)
    /\ \A i \in 1..Len(fetchLog) :
          /\ fetchLog[i].index = i
          /\ fetchLog[i].tracking_number = shipments[i].tracking_number
          /\ i < Len(fetchLog) => fetchLog[i].outcome = "ok"
    /\ Cardinality({i \in 1..Len(fetchLog) : fetchLog[i].outcome = "pending"}) <= 1
    /\ (fetchLog # <<>> /\ LastOutcome = "pending") <=> pc = "awaiting"
    /\ (fetchLog # <<>> /\ LastOutcome \in {"rejected", "failed", "unparsable"}) =>
          pc = "done"

\* C7: once a submission has failed, no later step issues another one.
C7_NothingIssuedAfterFailure ==
    [][(fetchLog # <<>> /\ LastOutcome \in {"rejected", "failed", "unparsable"}) =>
          fetchLog' = fetchLog]_vars

C7_Witness ==
    /\ pc = "awaiting"
    /\ Len(shipments) = 3
    /\ Len(fetchLog) = 3
    /\ fetchLog[1].outcome = "ok"
    /\ fetchLog[2].outcome = "ok"
    /\ fetchLog[3].outcome = "pending"

=============================================================================
